---- MODULE Spec2Model ----
(***************************************************************************)
(* SmartCache (src/implementations/1_claude_python/smart_cache.py): an     *)
(* in-memory key/value cache with a recency order (OrderedDict _cache), a  *)
(* per-key metadata table (dict _metadata), priority eviction, TTL expiry  *)
(* (lazy in get, proactive in the cleanup thread) and four counters.       *)
(*                                                                         *)
(* Python dicts keep insertion order, so both tables are sequences of      *)
(* records: assigning to a key that is present keeps its position, a new   *)
(* key is appended, deletion closes the gap.                               *)
(***************************************************************************)
EXTENDS Integers, Sequences, FiniteSets, TLC

VARIABLES
    cache,        \* _cache: OrderedDict key -> value, as a sequence of [key, value]
    metadata,     \* _metadata: dict key -> CacheEntry, as a sequence of entries
    stats,        \* _stats: CacheStats
    max_size,     \* _max_size
    default_ttl,  \* _default_ttl
    now,          \* the clock read by time.time()
    last,         \* the last call that changed the tables or the counters
    lastPut,      \* history: per stored key, the value of the most recent put of it
    touches,      \* history: the stored keys, in the order of their most recent touch
    listeners,    \* _event_listeners: the callbacks, each by what it does when called
    stop,         \* _cleanup_stop_event: whether the event is set
    owned,        \* whether the owner still holds a reference to the cache
    lock,         \* _lock: the RLock's owner and its recursion count
    pc,           \* where each thread stands in its call
    frame,        \* each thread's call: its arguments and locals
    made          \* history: the put and get calls the threads have started

cacheVars == <<cache, metadata, stats, max_size, default_ttl, now, last, lastPut, touches,
               touches, listeners, stop, owned>>
threadVars == <<lock, pc, frame, made>>
vars == <<cacheVars, threadVars>>

(***************************************************************************)
(* Bounds of the model.                                                    *)
(***************************************************************************)
MaxTime == 1          \* the clock runs 0..MaxTime
MaxCalls == 2         \* put and get are called while fewer than MaxCalls were counted
MaxListeners == 2     \* listeners are registered while fewer than MaxListeners are

(***************************************************************************)
(* Program constants.                                                      *)
(***************************************************************************)
MinPriority == 1          \* max(1, ...) in put
MaxPriority == 10         \* min(10, ...) in put
InitialMinPriority == 11  \* min_priority = 11 in _evict_lowest_priority

(***************************************************************************)
(* Inputs.  Keys are Python strings; the empty string is a string like any *)
(* other, and the only falsy one.  None is Python's None.                  *)
(***************************************************************************)
None == "None"
Keys == {"", "a", "b"}
Values == {"v1", "v2"}
\* The cache never inspects a value: two values on one key tell an overwrite
\* from what it replaced, the other keys carry one.
ValuesFor(key) == IF key = "a" THEN Values ELSE {"v1"}
\* below the range, its lower end, and above the range
PriorityArgs == {MinPriority - 1, MinPriority, MaxPriority + 1}
\* ttl omitted (None), zero, and a positive ttl shorter than the default
NoTtl == [given |-> FALSE, val |-> 0]
TtlArgs == {NoTtl, [given |-> TRUE, val |-> 0], [given |-> TRUE, val |-> 1]}
\* the argument lists of put
PutArgs == {a \in [key : Keys, value : Values, ttl : TtlArgs, priority : PriorityArgs] :
               a.value \in ValuesFor(a.key)}
\* the argument lists of put in the threaded workload: put(key, value, priority),
\* one value to a key
ThreadPutArgs == {a \in PutArgs : ~a.ttl.given /\ a.value = "v1"}
\* the argument lists of put in the monitored workload: put(key, value)
ListenerPutArgs == {a \in ThreadPutArgs : a.priority = MinPriority}
\* the argument lists of put in the workload with expiry: put(key, value, ttl)
TimedPutArgs == {a \in PutArgs : a.value = "v1" /\ a.priority = MinPriority}
\* what a listener does when it is called: it returns, or it raises an Exception
ListenerKinds == {"returns", "raises"}
\* a listener that calls back into the cache, by the call it makes
ReentrantKinds == {"calls put", "calls get", "calls delete", "calls clear",
                   "calls get_stats", "calls get_cache_info"}
\* the argument lists of put where listeners call back: put(key, value) as in
\* the monitored workload, on the keys that the eviction can choose
ReentrantPutArgs == {a \in ListenerPutArgs : a.key # ""}
\* the constructor's arguments
Capacities == {0, 1, 2}
DefaultTtls == {0, 1}

\* bool(x) for x a key or None: `if evict_key`, `... and evict_key`
Truthy(x) == x # None /\ x # ""

\* mutant: only an omitted ttl falls back on the default
TtlOrDefault_ZeroKept(ttl, dflt) == IF ttl.given THEN ttl.val ELSE dflt

\* `ttl or self._default_ttl`: an omitted (None) or zero ttl is falsy
TtlOrDefault(ttl, dflt) == IF ttl.given /\ ttl.val # 0 THEN ttl.val ELSE dflt

\* max(1, min(10, priority))
Min(a, b) == IF a < b THEN a ELSE b
Max(a, b) == IF a > b THEN a ELSE b
\* mutant: the upper bound is forgotten
ClampPriority_NoUpperBound(p) == Max(MinPriority, p)
ClampPriority(p) == Max(MinPriority, Min(MaxPriority, p))

(***************************************************************************)
(* Insertion-ordered dictionaries as sequences of records with a key.      *)
(***************************************************************************)
KeysOf(d) == {d[i].key : i \in DOMAIN d}
HasKey(d, k) == \E i \in DOMAIN d : d[i].key = k
\* list(d.keys()).index(k), counted from 1; 0 stands for the ValueError of
\* a key that is absent
IndexOf(d, k) == IF HasKey(d, k) THEN CHOOSE i \in DOMAIN d : d[i].key = k ELSE 0
Lookup(d, k) == d[IndexOf(d, k)]
\* del d[k]
DictDel(d, k) == SelectSeq(d, LAMBDA e : e.key # k)
\* d[k] = e: in place when k is present, appended when it is new
DictSet(d, k, e) ==
    IF HasKey(d, k)
    THEN [i \in DOMAIN d |-> IF d[i].key = k THEN e ELSE d[i]]
    ELSE Append(d, e)
\* mutant: the key stays where it is
MoveToEnd_Stays(d, k) == d

\* OrderedDict.move_to_end(k)
MoveToEnd(d, k) ==
    IF HasKey(d, k) THEN Append(DictDel(d, k), Lookup(d, k)) ELSE d

(***************************************************************************)
(* The cache's own operations, as functions of the tables and counters     *)
(* S = [cache, metadata, stats, listeners, stop, notified, raised].  All of *)
(* them run with the lock held by the caller.  stop is the flag of         *)
(* _cleanup_stop_event; notified lists the calls made to                   *)
(* listeners, each with the tables and counters as they stood at the call; *)
(* raised tells that an exception is on its way out of the operation.      *)
(***************************************************************************)
\* listener(event_type, key, value), called for listener i of the list
Invoke(S, i, type, key, value) ==
    [S EXCEPT !.notified = Append(@, [listener |-> i, type |-> type, key |-> key,
                                      value |-> value, cache |-> S.cache,
                                      metadata |-> S.metadata, stats |-> S.stats])]

\* mutant: no try/except around the call: the first listener that raises ends
\* the loop and the exception leaves _notify_listeners
RECURSIVE NotifyFrom_Uncaught(_, _, _, _, _)
NotifyFrom_Uncaught(S, i, type, key, value) ==
    IF i > Len(S.listeners) THEN S
    ELSE LET called == Invoke(S, i, type, key, value) IN
         IF S.listeners[i] = "raises" THEN [called EXCEPT !.raised = TRUE]
         ELSE NotifyFrom_Uncaught(called, i + 1, type, key, value)

\* the loop of _notify_listeners from listener i on: a listener that raises
\* an Exception is caught and logged, and the loop goes on
RECURSIVE NotifyFrom(_, _, _, _, _)
NotifyFrom(S, i, type, key, value) ==
    IF i > Len(S.listeners) THEN S
    ELSE NotifyFrom(Invoke(S, i, type, key, value), i + 1, type, key, value)

Notify_Uncaught(S, type, key, value) == NotifyFrom_Uncaught(S, 1, type, key, value)

\* _notify_listeners(event_type, key, value)
Notify(S, type, key, value) == NotifyFrom(S, 1, type, key, value)

\* mutant: the metadata entry is left behind
RemoveEntry_KeepsMetadata(S, key) ==
    IF HasKey(S.cache, key) THEN [S EXCEPT !.cache = DictDel(@, key)] ELSE S

\* _remove_entry(key)
RemoveEntry(S, key) ==
    IF HasKey(S.cache, key)
    THEN [S EXCEPT !.cache = DictDel(@, key), !.metadata = DictDel(@, key)]
    ELSE S

\* the loop of _evict_lowest_priority over _metadata.items(), from item i on,
\* with the loop's two locals; yields evict_key
RECURSIVE EvictScan(_, _, _, _, _)
EvictScan(c, m, i, min_priority, evict_key) ==
    IF i > Len(m) THEN evict_key
    ELSE IF m[i].priority < min_priority
         THEN EvictScan(c, m, i + 1, m[i].priority, m[i].key)
    ELSE IF m[i].priority = min_priority /\ Truthy(evict_key)
              /\ IndexOf(c, m[i].key) < IndexOf(c, evict_key)
         THEN EvictScan(c, m, i + 1, min_priority, m[i].key)
    ELSE EvictScan(c, m, i + 1, min_priority, evict_key)

EvictKey(c, m) == EvictScan(c, m, 1, InitialMinPriority, None)

\* mutant: an eviction is counted twice
EvictLowestPriority_CountsTwice(S) ==
    IF Len(S.cache) = 0 THEN S
    ELSE LET evict_key == EvictKey(S.cache, S.metadata) IN
         IF Truthy(evict_key)
         THEN Notify([RemoveEntry(S, evict_key) EXCEPT !.stats.evictions = @ + 2],
                     "eviction", evict_key, None)
         ELSE S

\* _evict_lowest_priority()
EvictLowestPriority(S) ==
    IF Len(S.cache) = 0 THEN S
    ELSE LET evict_key == EvictKey(S.cache, S.metadata) IN
         IF Truthy(evict_key)
         THEN Notify([RemoveEntry(S, evict_key) EXCEPT !.stats.evictions = @ + 1],
                     "eviction", evict_key, None)
         ELSE S

\* mutant: the test forgets that the key may be stored already
MustEvict_IgnoresPresence(c, key, maxsize) == Len(c) >= maxsize

\* the test of put that decides whether to evict
MustEvict(c, key, maxsize) == ~HasKey(c, key) /\ Len(c) >= maxsize

\* the CacheEntry put builds, filed under its key.  created_at and
\* last_accessed are written here and in get and read nowhere in the cache:
\* the model leaves the two fields out.
NewEntry(key, value, ttl, priority, current_time, dflt) ==
    [key |-> key, value |-> value,
     ttl |-> current_time + TtlOrDefault(ttl, dflt),
     priority |-> ClampPriority(priority),
     access_count |-> 0]

\* mutant: the metadata of a stored key is not replaced
StoreEntry_KeepsOldEntry(S, key, value, entry) ==
    [S EXCEPT !.cache = MoveToEnd(DictSet(@, key, [key |-> key, value |-> value]), key),
              !.metadata = IF HasKey(@, key) THEN @ ELSE DictSet(@, key, entry)]

\* mutant: a stored key keeps its place in _cache
StoreEntry_InPlace(S, key, value, entry) ==
    [S EXCEPT !.cache = DictSet(@, key, [key |-> key, value |-> value]),
              !.metadata = DictSet(@, key, entry)]

\* the store of put: _cache[key] = value, _metadata[key] = CacheEntry(...),
\* _cache.move_to_end(key)
StoreEntry(S, key, value, entry) ==
    [S EXCEPT !.cache = MoveToEnd(DictSet(@, key, [key |-> key, value |-> value]), key),
              !.metadata = DictSet(@, key, entry)]

\* put up to move_to_end: the eviction if one is due, then the store
PutTables(S, key, value, ttl, priority, current_time, maxsize, dflt) ==
    LET S1 == IF MustEvict(S.cache, key, maxsize) THEN EvictLowestPriority(S) ELSE S
    IN  IF S1.raised THEN S1
        ELSE StoreEntry(S1, key, value,
                        NewEntry(key, value, ttl, priority, current_time, dflt))

\* mutant: the "insert" event fires before insertions is counted
PutCount_NotifiesFirst(S, loaded, key, value) ==
    [Notify(S, "insert", key, value) EXCEPT !.stats.insertions = loaded + 1]

\* the rest of put: self._stats.insertions += 1 as the store of the value
\* loaded plus one, then the "insert" event
PutCount(S, loaded, key, value) ==
    Notify([S EXCEPT !.stats.insertions = loaded + 1], "insert", key, value)

\* the body of put, under the lock
PutBody(S, key, value, ttl, priority, current_time, maxsize, dflt) ==
    LET S2 == PutTables(S, key, value, ttl, priority, current_time, maxsize, dflt)
    IN  IF S2.raised THEN S2 ELSE PutCount(S2, S2.stats.insertions, key, value)

\* the TTL test of get
Expired(current_time, entry) == current_time > entry.ttl

\* how get finds its key; "KeyError" is self._metadata[key] raising for a key
\* that is in _cache only
GetOutcome(S, key, current_time) ==
    IF ~HasKey(S.cache, key) THEN "absent"
    ELSE IF ~HasKey(S.metadata, key) THEN "KeyError"
    ELSE IF Expired(current_time, Lookup(S.metadata, key)) THEN "expired"
    ELSE "hit"

\* mutant: the miss is reported and not counted
GetAbsent_Uncounted(S, key) == Notify(S, "miss", key, None)

\* get of a key that is not stored: a miss
GetAbsent(S, key) ==
    Notify([S EXCEPT !.stats.misses = @ + 1], "miss", key, None)

\* mutant: lazy expiry is counted as an eviction too
GetExpired_CountsEviction(S, key) ==
    Notify([RemoveEntry(S, key) EXCEPT !.stats.misses = @ + 1, !.stats.evictions = @ + 1],
           "miss", key, None)

\* mutant: lazy expiry counts its miss and tells no listener
GetExpired_Silent(S, key) == [RemoveEntry(S, key) EXCEPT !.stats.misses = @ + 1]

\* get of a stored key whose TTL has passed: removed, and a miss
GetExpired(S, key) ==
    Notify([RemoveEntry(S, key) EXCEPT !.stats.misses = @ + 1], "miss", key, None)

\* mutant: the hit forgets move_to_end
GetHit_KeepsPosition(S, key) ==
    LET entry == Lookup(S.metadata, key)
        touched == [entry EXCEPT !.access_count = @ + 1]
    IN  Notify([S EXCEPT !.metadata = DictSet(@, key, touched),
                         !.stats.hits = @ + 1],
               "hit", key, entry.value)

\* mutant: the hit is counted as a miss as well
GetHit_CountsBoth(S, key) ==
    LET entry == Lookup(S.metadata, key)
        touched == [entry EXCEPT !.access_count = @ + 1]
    IN  Notify([S EXCEPT !.metadata = DictSet(@, key, touched),
                         !.cache = MoveToEnd(@, key),
                         !.stats.hits = @ + 1,
                         !.stats.misses = @ + 1],
               "hit", key, entry.value)

\* get of a stored, live key: access_count, move_to_end, a hit
GetHit(S, key) ==
    LET entry == Lookup(S.metadata, key)
        touched == [entry EXCEPT !.access_count = @ + 1]
    IN  Notify([S EXCEPT !.metadata = DictSet(@, key, touched),
                         !.cache = MoveToEnd(@, key),
                         !.stats.hits = @ + 1],
               "hit", key, entry.value)

\* the body of get, under the lock
GetBody(S, key, current_time) ==
    LET outcome == GetOutcome(S, key, current_time) IN
    CASE outcome = "absent" -> GetAbsent(S, key)
      [] outcome = "KeyError" -> S
      [] outcome = "expired" -> GetExpired(S, key)
      [] outcome = "hit" -> GetHit(S, key)

\* what get returns
GetReturn(S, key, current_time) ==
    LET outcome == GetOutcome(S, key, current_time) IN
    IF outcome = "hit" THEN Lookup(S.metadata, key).value
    ELSE IF outcome = "KeyError" THEN "KeyError"
    ELSE None

\* what `key in cache` returns: __contains__ is `self.get(key) is not None`
ContainsReturn(S, key, current_time) ==
    IF GetReturn(S, key, current_time) # None THEN "True" ELSE "False"

\* mutant: the membership test looks the key up and leaves the cache alone
ContainsBody_Peek(S, key, current_time) == S

\* what `key in cache` does to the cache: __contains__ calls self.get(key)
ContainsBody(S, key, current_time) == GetBody(S, key, current_time)

\* what delete returns
DeleteReturn(S, key) == IF HasKey(S.cache, key) THEN "True" ELSE "False"

\* mutant: only the ordering index forgets the key
DeleteBody_CacheOnly(S, key) ==
    IF HasKey(S.cache, key) THEN [S EXCEPT !.cache = DictDel(@, key)] ELSE S

\* mutant: delete reports the removal as an eviction
DeleteBody_FiresEviction(S, key) ==
    IF HasKey(S.cache, key)
    THEN Notify([RemoveEntry(S, key) EXCEPT !.stats.evictions = @ + 1], "eviction", key, None)
    ELSE S

\* the body of delete, under the lock
DeleteBody(S, key) == IF HasKey(S.cache, key) THEN RemoveEntry(S, key) ELSE S

\* mutant: only the ordering index is cleared
ClearBody_KeepsMetadata(S) == [S EXCEPT !.cache = <<>>]

\* mutant: clear starts the counters afresh
ClearBody_ResetsStats(S) ==
    [S EXCEPT !.cache = <<>>, !.metadata = <<>>,
              !.stats = [hits |-> 0, misses |-> 0, evictions |-> 0, insertions |-> 0]]

\* the body of clear, under the lock
ClearBody(S) == [S EXCEPT !.cache = <<>>, !.metadata = <<>>]

\* mutant: the division is made whatever the total
HitRate_Unguarded(st) == [num |-> st.hits, den |-> st.hits + st.misses]

\* what get_stats returns; hit_rate is kept as the fraction it is computed from
HitRate(st) ==
    IF st.hits + st.misses > 0
    THEN [num |-> st.hits, den |-> st.hits + st.misses]
    ELSE [num |-> 0, den |-> 1]
GetStatsReturn(S, maxsize) ==
    [hits |-> S.stats.hits, misses |-> S.stats.misses, hit_rate |-> HitRate(S.stats),
     evictions |-> S.stats.evictions, insertions |-> S.stats.insertions,
     size |-> Len(S.cache), capacity |-> maxsize]

\* items_info of get_cache_info: one item per metadata entry, in its order
GetCacheInfoItems(S, current_time) ==
    [i \in DOMAIN S.metadata |->
        [key |-> S.metadata[i].key, priority |-> S.metadata[i].priority,
         ttl_remaining |-> Max(0, S.metadata[i].ttl - current_time),
         access_count |-> S.metadata[i].access_count]]

\* what get_cache_info returns, from the items gathered and the get_stats it calls
GetCacheInfoReturn(S, items, maxsize) ==
    [items |-> items, stats |-> GetStatsReturn(S, maxsize)]

\* mutant: the snapshot sweeps the expired entries it comes across
GetCacheInfoBody_RemovesExpired(S, current_time) ==
    [S EXCEPT !.cache = SelectSeq(@, LAMBDA e :
                            \A i \in DOMAIN S.metadata :
                                S.metadata[i].key = e.key => ~(current_time > S.metadata[i].ttl)),
              !.metadata = SelectSeq(@, LAMBDA e : ~(current_time > e.ttl))]

\* the bodies of get_stats and get_cache_info, under the lock: they read the
\* counters, len(_cache) and the metadata entries and assign to none of them
GetStatsBody(S) == S
GetCacheInfoBody(S, current_time) == GetStatsBody(S)

\* the body of _cleanup_expired, under the lock: the expired keys are
\* collected first, then removed one by one
RECURSIVE RemoveAll(_, _)
RemoveAll(S, keys) ==
    IF keys = <<>> THEN S ELSE RemoveAll(RemoveEntry(S, Head(keys)), Tail(keys))

\* mutant: the sweep takes an entry for dead at the instant of its expiry
ExpiredAtSweep_AtExpiry(current_time, entry) == current_time >= entry.ttl

\* the TTL test of _cleanup_expired
ExpiredAtSweep(current_time, entry) == current_time > entry.ttl

ExpiredKeys(m, current_time) ==
    LET dead == SelectSeq(m, LAMBDA e : ExpiredAtSweep(current_time, e))
    IN  [i \in DOMAIN dead |-> dead[i].key]

\* mutant: the sweep looks and removes nothing
CleanupExpiredBody_Idle(S, current_time) == S

\* mutant: the sweep counts what it removes as evictions
CleanupExpiredBody_CountsEvictions(S, current_time) ==
    [RemoveAll(S, ExpiredKeys(S.metadata, current_time))
        EXCEPT !.stats.evictions = @ + Len(ExpiredKeys(S.metadata, current_time))]

CleanupExpiredBody(S, current_time) ==
    RemoveAll(S, ExpiredKeys(S.metadata, current_time))

(***************************************************************************)
(* The state machine of calls that run one at a time: every action is one  *)
(* whole call (or one run of the cleanup thread's _cleanup_expired), or a  *)
(* tick of the clock.                                                      *)
(***************************************************************************)
\* CacheStats() and SmartCache.__init__
ZeroStats == [hits |-> 0, misses |-> 0, evictions |-> 0, insertions |-> 0]

\* a call, for `last`: its name, and how it found its key ("absent",
\* "expired" or "hit", as get tells them apart)
Call(op, was) == [op |-> op, was |-> was]
NoCall(op) == Call(op, "n/a")

\* threading.RLock(): free, or held by one thread count times over
Unlocked == [owner |-> None, count |-> 0]
\* the caller threads, and the cleanup thread
Threads == {"t1", "t2"}
Sweeper == "cleanup"
NoFrame == [key |-> None, value |-> None, ttl |-> NoTtl, priority |-> 0,
            was |-> "n/a", loaded |-> 0, items |-> <<>>, current_time |-> 0]

Init ==
    /\ cache = <<>>
    /\ metadata = <<>>
    /\ stats = ZeroStats
    /\ max_size \in Capacities
    /\ default_ttl \in DefaultTtls
    /\ now = 0
    /\ last = NoCall("init")
    /\ lastPut = [k \in Keys |-> None]
    /\ touches = <<>>
    /\ listeners = <<>>
    /\ stop = FALSE
    /\ owned = TRUE
    /\ lock = Unlocked
    /\ pc = [t \in Threads \cup {Sweeper} |-> "idle"]
    /\ frame = [t \in Threads |-> NoFrame]
    /\ made = [put |-> 0, get |-> 0]

\* the calls the counters have counted: every put, every get
Counted(st) == st.insertions + st.hits + st.misses

\* the tables and counters at the start of a call
Tables ==
    [cache |-> cache, metadata |-> metadata, stats |-> stats, listeners |-> listeners,
     stop |-> stop, notified |-> <<>>, raised |-> FALSE]

\* the history of puts, forgetting the keys that have left the cache
StillStored(h, c) == [k \in Keys |-> IF HasKey(c, k) THEN h[k] ELSE None]

\* the history of touches: a put of a key and a get that hits it touch the
\* key; a key that has left the cache is forgotten
Survivors(h, c) == SelectSeq(h, LAMBDA k : HasKey(c, k))
Touch(h, c, key) == Append(SelectSeq(h, LAMBDA k : k # key /\ HasKey(c, k)), key)
TouchIfHit(h, c, key, was) == IF was = "hit" THEN Touch(h, c, key) ELSE Survivors(h, c)

\* a piece of a call leaves the tables and counters as it computed them;
\* `last` names the call if it changed any of them
Apply(S, call) ==
    /\ cache' = S.cache
    /\ metadata' = S.metadata
    /\ stats' = S.stats
    /\ last' = IF S.cache = cache /\ S.metadata = metadata /\ S.stats = stats
               THEN last ELSE call
    /\ stop' = S.stop
    /\ UNCHANGED <<max_size, default_ttl, now, listeners, owned>>

\* a whole call, from taking the lock to releasing it, no other thread running
Commit(S, call) == Apply(S, call) /\ UNCHANGED threadVars

\* what put returns
PutReturn == "True"

Put(key, value, ttl, priority) ==
    /\ Counted(stats) < MaxCalls
    /\ Commit(PutBody(Tables, key, value, ttl, priority, now, max_size, default_ttl),
              Call("put", GetOutcome(Tables, key, now)))
    /\ lastPut' = [StillStored(lastPut, cache') EXCEPT ![key] = value]
    /\ touches' = Touch(touches, cache', key)

Get(key) ==
    /\ Counted(stats) < MaxCalls
    /\ Commit(GetBody(Tables, key, now), Call("get", GetOutcome(Tables, key, now)))
    /\ lastPut' = StillStored(lastPut, cache')
    /\ touches' = TouchIfHit(touches, cache', key, GetOutcome(Tables, key, now))

Delete(key) ==
    /\ Commit(DeleteBody(Tables, key), Call("delete", GetOutcome(Tables, key, now)))
    /\ lastPut' = StillStored(lastPut, cache')
    /\ touches' = Survivors(touches, cache')

Clear ==
    /\ Commit(ClearBody(Tables), NoCall("clear"))
    /\ lastPut' = StillStored(lastPut, cache')
    /\ touches' = Survivors(touches, cache')

\* one run of _cleanup_expired by the cleanup thread, whose loop goes on while
\* the stop event is not set
CleanupExpired ==
    /\ ~stop
    /\ Commit(CleanupExpiredBody(Tables, now), NoCall("cleanup"))
    /\ lastPut' = StillStored(lastPut, cache')
    /\ touches' = Survivors(touches, cache')

\* time passes
Tick ==
    /\ now < MaxTime
    /\ now' = now + 1
    /\ UNCHANGED <<cache, metadata, stats, max_size, default_ttl, last, lastPut, touches,
                   listeners, stop, owned, threadVars>>

Next ==
    \/ \E key \in Keys, ttl \in TtlArgs, priority \in PriorityArgs :
          \E value \in ValuesFor(key) : Put(key, value, ttl, priority)
    \/ \E key \in Keys : Get(key)
    \/ \E key \in Keys : Delete(key)
    \/ Clear
    \/ CleanupExpired
    \/ Tick

Spec == Init /\ [][Next]_vars

(***************************************************************************)
(* The same calls on a cache whose owner registers listeners.              *)
(***************************************************************************)
\* add_event_listener(callback)
AddEventListener(kind) ==
    /\ Len(listeners) < MaxListeners
    /\ listeners' = Append(listeners, kind)
    /\ UNCHANGED <<cache, metadata, stats, max_size, default_ttl, now, last, lastPut, touches,
                   stop, owned, threadVars>>

NextListeners ==
    \/ \E kind \in ListenerKinds : AddEventListener(kind)
    \/ \E a \in ListenerPutArgs : Put(a.key, a.value, a.ttl, a.priority)
    \/ \E key \in Keys : Get(key)
    \/ \E key \in Keys : Delete(key)
    \/ Tick

SpecListeners == Init /\ [][NextListeners]_vars

(***************************************************************************)
(* The state machine of threads: caller threads inside put and get, and    *)
(* the cleanup thread inside _cleanup_expired, interleaved step by step.   *)
(* Every call runs `with self._lock:` from its first line to its return.   *)
(***************************************************************************)
\* mutant: the lock lets every thread in
Acquirable_Always(t) == TRUE

\* mutant: a plain Lock, which its own holder cannot take again
Acquirable_NotReentrant(t) == lock.owner = None

\* RLock.acquire() succeeds for a free lock and for the thread that holds it
Acquirable(t) == lock.owner = None \/ lock.owner = t
Acquired(t) == [owner |-> t, count |-> lock.count + 1]
\* RLock.release()
Released == IF lock.count = 1 THEN Unlocked ELSE [lock EXCEPT !.count = @ - 1]

\* put: `with self._lock:` is entered
TPutAcquire(t, key, value, ttl, priority) ==
    /\ pc[t] = "idle"
    /\ made.put + made.get < MaxCalls
    /\ Acquirable(t)
    /\ lock' = Acquired(t)
    /\ pc' = [pc EXCEPT ![t] = "put:tables"]
    /\ frame' = [frame EXCEPT ![t] = [NoFrame EXCEPT !.key = key, !.value = value,
                                                     !.ttl = ttl, !.priority = priority]]
    /\ made' = [made EXCEPT !.put = @ + 1]
    /\ UNCHANGED cacheVars

\* put: the eviction and the store; insertions is loaded for the += 1
TPutTables(t) ==
    /\ pc[t] = "put:tables"
    /\ LET f == frame[t]
           S == PutTables(Tables, f.key, f.value, f.ttl, f.priority, now, max_size,
                          default_ttl)
           was == GetOutcome(Tables, f.key, now)
       IN  /\ Apply(S, Call("put", was))
           /\ lastPut' = [StillStored(lastPut, cache') EXCEPT ![f.key] = f.value]
           /\ touches' = Touch(touches, cache', f.key)
           /\ frame' = [frame EXCEPT ![t].was = was, ![t].loaded = S.stats.insertions]
    /\ pc' = [pc EXCEPT ![t] = "put:count"]
    /\ UNCHANGED <<lock, made>>

\* put: insertions is stored, the "insert" event fires, put returns and the
\* lock is released
TPutCount(t) ==
    /\ pc[t] = "put:count"
    /\ Apply(PutCount(Tables, frame[t].loaded, frame[t].key, frame[t].value),
             Call("put", frame[t].was))
    /\ lastPut' = StillStored(lastPut, cache')
    /\ touches' = Survivors(touches, cache')
    /\ lock' = Released
    /\ pc' = [pc EXCEPT ![t] = "idle"]
    /\ frame' = [frame EXCEPT ![t] = NoFrame]
    /\ UNCHANGED made

\* get: `with self._lock:` is entered
TGetAcquire(t, key) ==
    /\ pc[t] = "idle"
    /\ made.put + made.get < MaxCalls
    /\ Acquirable(t)
    /\ lock' = Acquired(t)
    /\ pc' = [pc EXCEPT ![t] = "get:body"]
    /\ frame' = [frame EXCEPT ![t] = [NoFrame EXCEPT !.key = key]]
    /\ made' = [made EXCEPT !.get = @ + 1]
    /\ UNCHANGED cacheVars

\* get: its body; get returns and the lock is released
TGetBody(t) ==
    /\ pc[t] = "get:body"
    /\ Apply(GetBody(Tables, frame[t].key, now),
             Call("get", GetOutcome(Tables, frame[t].key, now)))
    /\ lastPut' = StillStored(lastPut, cache')
    /\ touches' = TouchIfHit(touches, cache', frame[t].key, GetOutcome(Tables, frame[t].key, now))
    /\ lock' = Released
    /\ pc' = [pc EXCEPT ![t] = "idle"]
    /\ frame' = [frame EXCEPT ![t] = NoFrame]
    /\ UNCHANGED made

\* the cleanup thread's wait ends: with the stop event set the loop and the
\* thread end, otherwise _cleanup_expired enters `with self._lock:`
SweepAcquire ==
    /\ pc[Sweeper] = "idle"
    /\ IF stop
       THEN /\ pc' = [pc EXCEPT ![Sweeper] = "stopped"]
            /\ UNCHANGED lock
       ELSE /\ Acquirable(Sweeper)
            /\ lock' = Acquired(Sweeper)
            /\ pc' = [pc EXCEPT ![Sweeper] = "cleanup:body"]
    /\ UNCHANGED <<cacheVars, frame, made>>

\* _cleanup_expired: its body; the lock is released
SweepBody ==
    /\ pc[Sweeper] = "cleanup:body"
    /\ Apply(CleanupExpiredBody(Tables, now), NoCall("cleanup"))
    /\ lastPut' = StillStored(lastPut, cache')
    /\ touches' = Survivors(touches, cache')
    /\ lock' = Released
    /\ pc' = [pc EXCEPT ![Sweeper] = "idle"]
    /\ UNCHANGED <<frame, made>>

\* delete: `with self._lock:` is entered
TDeleteAcquire(t, key) ==
    /\ pc[t] = "idle"
    /\ Acquirable(t)
    /\ lock' = Acquired(t)
    /\ pc' = [pc EXCEPT ![t] = "delete:body"]
    /\ frame' = [frame EXCEPT ![t] = [NoFrame EXCEPT !.key = key]]
    /\ UNCHANGED <<cacheVars, made>>

\* delete: its body; delete returns and the lock is released
TDeleteBody(t) ==
    /\ pc[t] = "delete:body"
    /\ Apply(DeleteBody(Tables, frame[t].key),
             Call("delete", GetOutcome(Tables, frame[t].key, now)))
    /\ lastPut' = StillStored(lastPut, cache')
    /\ touches' = Survivors(touches, cache')
    /\ lock' = Released
    /\ pc' = [pc EXCEPT ![t] = "idle"]
    /\ frame' = [frame EXCEPT ![t] = NoFrame]
    /\ UNCHANGED made

\* clear, get_stats, get_cache_info: `with self._lock:` is entered
TEnter(t, op) ==
    /\ pc[t] = "idle"
    /\ Acquirable(t)
    /\ lock' = Acquired(t)
    /\ pc' = [pc EXCEPT ![t] = op]
    /\ UNCHANGED <<cacheVars, frame, made>>

\* clear: its body; the lock is released
TClearBody(t) ==
    /\ pc[t] = "clear:body"
    /\ Apply(ClearBody(Tables), NoCall("clear"))
    /\ lastPut' = StillStored(lastPut, cache')
    /\ touches' = Survivors(touches, cache')
    /\ lock' = Released
    /\ pc' = [pc EXCEPT ![t] = "idle"]
    /\ UNCHANGED <<frame, made>>

\* get_stats: the dictionary is built and returned; the lock is released
TGetStatsBody(t) ==
    /\ pc[t] = "get_stats:body"
    /\ Apply(GetStatsBody(Tables), NoCall("get_stats"))
    /\ lastPut' = StillStored(lastPut, cache')
    /\ touches' = Survivors(touches, cache')
    /\ lock' = Released
    /\ pc' = [pc EXCEPT ![t] = "idle"]
    /\ UNCHANGED <<frame, made>>

\* get_cache_info: items_info is built, then self.get_stats() is called and
\* takes the lock a second time
TGetCacheInfoItems(t) ==
    /\ pc[t] = "get_cache_info:items"
    /\ Acquirable(t)
    /\ lock' = Acquired(t)
    /\ frame' = [frame EXCEPT ![t].items = GetCacheInfoItems(Tables, now)]
    /\ Apply(GetCacheInfoBody(Tables, now), NoCall("get_cache_info"))
    /\ lastPut' = StillStored(lastPut, cache')
    /\ touches' = Survivors(touches, cache')
    /\ pc' = [pc EXCEPT ![t] = "get_cache_info:stats"]
    /\ UNCHANGED made

\* get_cache_info: get_stats returns and releases the lock once,
\* get_cache_info returns and releases it again
TGetCacheInfoStats(t) ==
    /\ pc[t] = "get_cache_info:stats"
    /\ lock' = [owner |-> IF lock.count = 2 THEN None ELSE lock.owner,
                count |-> lock.count - 2]
    /\ pc' = [pc EXCEPT ![t] = "idle"]
    /\ frame' = [frame EXCEPT ![t] = NoFrame]
    /\ UNCHANGED <<cacheVars, made>>

NextThreads ==
    \/ \E t \in Threads, a \in ThreadPutArgs :
          TPutAcquire(t, a.key, a.value, a.ttl, a.priority)
    \/ \E t \in Threads : TPutTables(t)
    \/ \E t \in Threads : TPutCount(t)
    \/ \E t \in Threads, key \in Keys : TGetAcquire(t, key)
    \/ \E t \in Threads : TGetBody(t)
    \/ \E t \in Threads, key \in Keys : TDeleteAcquire(t, key)
    \/ \E t \in Threads : TDeleteBody(t)
    \/ \E t \in Threads :
          \E op \in {"clear:body", "get_stats:body", "get_cache_info:items"} : TEnter(t, op)
    \/ \E t \in Threads : TClearBody(t)
    \/ \E t \in Threads : TGetStatsBody(t)
    \/ \E t \in Threads : TGetCacheInfoItems(t)
    \/ \E t \in Threads : TGetCacheInfoStats(t)
    \/ SweepAcquire
    \/ SweepBody
    \/ Tick

SpecThreads == Init /\ [][NextThreads]_vars

(***************************************************************************)
(* The life of the cache: its owner calls it and then drops it, while the  *)
(* cleanup thread started by __init__ waits, sweeps, and ends when it      *)
(* finds the stop event set.  The owner's calls run whole, under the lock. *)
(***************************************************************************)
\* besides the owner's reference to the cache there is the cleanup thread's,
\* whose target is the bound method self._cleanup_worker, for as long as the
\* thread runs
SweeperHoldsReference == pc[Sweeper] # "stopped"

\* __del__: sets the stop event
DelBody(S) == [S EXCEPT !.stop = TRUE]

\* the owner drops its reference; the interpreter calls __del__ when no
\* reference to the cache is left
Drop ==
    /\ owned
    /\ lock = Unlocked
    /\ owned' = FALSE
    /\ stop' = IF SweeperHoldsReference THEN stop ELSE DelBody(Tables).stop
    /\ UNCHANGED <<cache, metadata, stats, max_size, default_ttl, now, last, lastPut, touches,
                   listeners, threadVars>>

NextLifetime ==
    \/ \E a \in ListenerPutArgs :
          owned /\ lock = Unlocked /\ Put(a.key, a.value, a.ttl, a.priority)
    \/ \E key \in Keys : owned /\ lock = Unlocked /\ Get(key)
    \/ Drop
    \/ SweepAcquire
    \/ SweepBody
    \/ Tick

\* the cleanup thread is scheduled again and again: its wait of 10 seconds
\* ends, and a sweep under way finishes
SpecLifetime ==
    Init /\ [][NextLifetime]_vars /\ WF_vars(SweepAcquire) /\ WF_vars(SweepBody)

(***************************************************************************)
(* Shutdown: __del__ is called on the cache while its cleanup thread runs. *)
(* The thread's loop is followed step by step: the wait on the stop event, *)
(* the entry into _cleanup_expired, the sweep.  pc[Sweeper] is "idle" in   *)
(* the wait before its interval has passed and "due" once it has.          *)
(***************************************************************************)
\* mutant: the thread sleeps the interval out and then looks at the event
WaitOutcome_Sleeps(set, elapsed) ==
    IF ~elapsed THEN "waiting" ELSE IF set THEN "set" ELSE "timeout"

\* self._cleanup_stop_event.wait(10): returns True as soon as the event is
\* set, False when the interval has passed with the event clear
WaitOutcome(set, elapsed) ==
    IF set THEN "set" ELSE IF elapsed THEN "timeout" ELSE "waiting"

\* the thread is inside wait(10)
Waiting == pc[Sweeper] \in {"idle", "due"}

\* __del__ is called
Del ==
    /\ ~stop
    /\ stop' = DelBody(Tables).stop
    /\ UNCHANGED <<cache, metadata, stats, max_size, default_ttl, now, last, lastPut, touches,
                   listeners, owned, threadVars>>

\* the interval of the wait passes
IntervalElapses ==
    /\ pc[Sweeper] = "idle"
    /\ pc' = [pc EXCEPT ![Sweeper] = "due"]
    /\ UNCHANGED <<cacheVars, lock, frame, made>>

\* wait(10) returns: True ends the loop and the thread, False calls
\* _cleanup_expired
WaitReturns ==
    /\ Waiting
    /\ WaitOutcome(stop, pc[Sweeper] = "due") # "waiting"
    /\ pc' = [pc EXCEPT ![Sweeper] =
                 IF WaitOutcome(stop, pc[Sweeper] = "due") = "set"
                 THEN "stopped" ELSE "cleanup:enter"]
    /\ UNCHANGED <<cacheVars, lock, frame, made>>

\* _cleanup_expired: `with self._lock:` is entered
SweepEnter ==
    /\ pc[Sweeper] = "cleanup:enter"
    /\ Acquirable(Sweeper)
    /\ lock' = Acquired(Sweeper)
    /\ pc' = [pc EXCEPT ![Sweeper] = "cleanup:body"]
    /\ UNCHANGED <<cacheVars, frame, made>>

NextShutdown ==
    \/ \E a \in TimedPutArgs : lock = Unlocked /\ Put(a.key, a.value, a.ttl, a.priority)
    \/ \E key \in Keys : lock = Unlocked /\ Get(key)
    \/ Del
    \/ IntervalElapses
    \/ WaitReturns
    \/ SweepEnter
    \/ SweepBody
    \/ Tick

\* the cleanup thread is scheduled again and again, and the interval of its
\* wait does pass
SpecShutdown ==
    /\ Init
    /\ [][NextShutdown]_vars
    /\ WF_vars(IntervalElapses)
    /\ WF_vars(WaitReturns)
    /\ WF_vars(SweepEnter)
    /\ WF_vars(SweepBody)

(***************************************************************************)
(* The calls that run one at a time, in the workload with expiry: entries  *)
(* are put with and without a ttl, read, deleted, swept and cleared.       *)
(***************************************************************************)
NextTimed ==
    \/ \E a \in TimedPutArgs : Put(a.key, a.value, a.ttl, a.priority)
    \/ \E key \in Keys : Get(key)
    \/ \E key \in Keys : Delete(key)
    \/ Clear
    \/ CleanupExpired
    \/ Tick

SpecTimed == Init /\ [][NextTimed]_vars

(***************************************************************************)
(* Membership tests on a cache that is also given None to store.           *)
(***************************************************************************)
\* put(key, value) with a value, and with None as the value
ContainsPutArgs == [key : Keys, value : {"v1", None}, ttl : {NoTtl},
                    priority : {MinPriority}]

\* `key in cache`: __contains__ calls get, which runs whole
Contains(key) ==
    /\ Counted(stats) < MaxCalls
    /\ Commit(ContainsBody(Tables, key, now), Call("contains", GetOutcome(Tables, key, now)))
    /\ lastPut' = StillStored(lastPut, cache')
    /\ touches' = TouchIfHit(touches, cache', key, GetOutcome(Tables, key, now))

NextContains ==
    \/ \E a \in ContainsPutArgs : Put(a.key, a.value, a.ttl, a.priority)
    \/ \E key \in Keys : Contains(key)
    \/ Tick

SpecContains == Init /\ [][NextContains]_vars

(***************************************************************************)
(* Listeners that call back into the cache.  _notify_listeners runs inside *)
(* the caller's `with self._lock:`, so a call made by a listener takes the *)
(* lock a second time on the same thread.  put and get are followed here   *)
(* from one call of the listeners to the next; the call a listener makes   *)
(* runs whole, and the listener does not call back again from inside it.   *)
(***************************************************************************)
\* add_event_listener(callback), for a callback that calls back
AddReentrantListener(kind) ==
    /\ listeners = <<>>
    /\ listeners' = <<kind>>
    /\ UNCHANGED <<cache, metadata, stats, max_size, default_ttl, now, last, lastPut, touches,
                   stop, owned, threadVars>>

\* where a call stands when _notify_listeners is called, while a listener is
\* inside its own call, and where the call goes on afterwards
NotifyPoints == {"put:evicted", "put:counted", "get:done"}
NestedPoints == {"put:evicted:listener", "put:counted:listener", "get:done:listener"}
Entered(p) ==
    CASE p = "put:evicted" -> "put:evicted:listener"
      [] p = "put:counted" -> "put:counted:listener"
      [] p = "get:done" -> "get:done:listener"
Resume(p) ==
    CASE p \in {"put:evicted", "put:evicted:listener"} -> "put:store"
      [] p \in {"put:counted", "put:counted:listener"} -> "put:return"
      [] p \in {"get:done", "get:done:listener"} -> "get:return"

\* the tables and counters for a piece of a call whose events are delivered
\* by a step of their own
Silent == [Tables EXCEPT !.listeners = <<>>]

\* put: `with self._lock:` is entered
RPutAcquire(t, key, value, ttl, priority) ==
    /\ pc[t] = "idle"
    /\ made.put + made.get < MaxCalls
    /\ Acquirable(t)
    /\ lock' = Acquired(t)
    /\ pc' = [pc EXCEPT ![t] = "put:evict"]
    /\ frame' = [frame EXCEPT ![t] = [NoFrame EXCEPT !.key = key, !.value = value,
                                                     !.ttl = ttl, !.priority = priority]]
    /\ made' = [made EXCEPT !.put = @ + 1]
    /\ UNCHANGED cacheVars

\* put: the clock is read and the eviction is made if one is due; an eviction
\* made is reported to the listeners
RPutEvict(t) ==
    /\ pc[t] = "put:evict"
    /\ LET f == frame[t]
           S == IF MustEvict(cache, f.key, max_size) THEN EvictLowestPriority(Silent)
                ELSE Silent
       IN  /\ Apply([S EXCEPT !.listeners = listeners],
                    Call("put", GetOutcome(Tables, f.key, now)))
           /\ lastPut' = StillStored(lastPut, cache')
           /\ touches' = Survivors(touches, cache')
           /\ frame' = [frame EXCEPT ![t].was = GetOutcome(Tables, f.key, now),
                                     ![t].current_time = now]
           /\ pc' = [pc EXCEPT ![t] = IF S.stats.evictions # stats.evictions
                                      THEN "put:evicted" ELSE "put:store"]
    /\ UNCHANGED <<lock, made>>

\* put: the store, move_to_end and insertions += 1; the "insert" event is due
RPutStore(t) ==
    /\ pc[t] = "put:store"
    /\ LET f == frame[t]
           S == StoreEntry(Silent, f.key, f.value,
                           NewEntry(f.key, f.value, f.ttl, f.priority, f.current_time,
                                    default_ttl))
       IN  /\ Apply([S EXCEPT !.stats.insertions = @ + 1, !.listeners = listeners],
                    Call("put", f.was))
           /\ lastPut' = [StillStored(lastPut, cache') EXCEPT ![f.key] = f.value]
           /\ touches' = Touch(touches, cache', f.key)
    /\ pc' = [pc EXCEPT ![t] = "put:counted"]
    /\ UNCHANGED <<lock, frame, made>>

\* get: `with self._lock:` is entered
RGetAcquire(t, key) ==
    /\ pc[t] = "idle"
    /\ made.put + made.get < MaxCalls
    /\ Acquirable(t)
    /\ lock' = Acquired(t)
    /\ pc' = [pc EXCEPT ![t] = "get:lookup"]
    /\ frame' = [frame EXCEPT ![t] = [NoFrame EXCEPT !.key = key]]
    /\ made' = [made EXCEPT !.get = @ + 1]
    /\ UNCHANGED cacheVars

\* get: its body up to the event, which is due on a miss as on a hit
RGetLookup(t) ==
    /\ pc[t] = "get:lookup"
    /\ Apply(GetBody(Tables, frame[t].key, now),
             Call("get", GetOutcome(Tables, frame[t].key, now)))
    /\ lastPut' = StillStored(lastPut, cache')
    /\ touches' = TouchIfHit(touches, cache', frame[t].key, GetOutcome(Tables, frame[t].key, now))
    /\ pc' = [pc EXCEPT ![t] = "get:done"]
    /\ UNCHANGED <<lock, frame, made>>

\* _notify_listeners: with no listener the call goes on; a listener that
\* calls back enters `with self._lock:` of the call it makes
RNotify(t) ==
    /\ pc[t] \in NotifyPoints
    /\ IF listeners = <<>>
       THEN /\ pc' = [pc EXCEPT ![t] = Resume(pc[t])]
            /\ UNCHANGED lock
       ELSE /\ Acquirable(t)
            /\ lock' = Acquired(t)
            /\ pc' = [pc EXCEPT ![t] = Entered(pc[t])]
    /\ UNCHANGED <<cacheVars, frame, made>>

\* the call the listener makes, by the kind of the listener
NestedBody(kind, a, key) ==
    CASE kind = "calls put" ->
            PutBody(Tables, a.key, a.value, a.ttl, a.priority, now, max_size, default_ttl)
      [] kind = "calls get" -> GetBody(Tables, key, now)
      [] kind = "calls delete" -> DeleteBody(Tables, key)
      [] kind = "calls clear" -> ClearBody(Tables)
      [] kind = "calls get_stats" -> GetStatsBody(Tables)
      [] kind = "calls get_cache_info" -> GetCacheInfoBody(Tables, now)

\* the listener's call runs and returns, releasing the lock once; the
\* get_stats inside get_cache_info takes and releases it once more on the way
RNested(t, a, key) ==
    /\ pc[t] \in NestedPoints
    /\ listeners[1] = "calls get_cache_info" => Acquirable(t)
    /\ Apply(NestedBody(listeners[1], a, key), NoCall(listeners[1]))
    /\ lastPut' = IF listeners[1] = "calls put"
                  THEN [StillStored(lastPut, cache') EXCEPT ![a.key] = a.value]
                  ELSE StillStored(lastPut, cache')
    /\ touches' = CASE listeners[1] = "calls put" -> Touch(touches, cache', a.key)
                     [] listeners[1] = "calls get" ->
                            TouchIfHit(touches, cache', key, GetOutcome(Tables, key, now))
                     [] OTHER -> Survivors(touches, cache')
    /\ lock' = Released
    /\ pc' = [pc EXCEPT ![t] = Resume(pc[t])]
    /\ UNCHANGED <<frame, made>>

\* put and get return, and `with self._lock:` is left
RReturn(t) ==
    /\ pc[t] \in {"put:return", "get:return"}
    /\ lock' = Released
    /\ pc' = [pc EXCEPT ![t] = "idle"]
    /\ frame' = [frame EXCEPT ![t] = NoFrame]
    /\ UNCHANGED <<cacheVars, made>>

\* the thread whose calls are followed; the cleanup thread is the other
\* party to the lock
Caller == "t1"

\* the steps of a thread that is inside its call
RStep(t) ==
    \/ RPutEvict(t)
    \/ RPutStore(t)
    \/ RGetLookup(t)
    \/ RNotify(t)
    \/ \E a \in ReentrantPutArgs, key \in Keys : RNested(t, a, key)
    \/ RReturn(t)

NextReentrant ==
    \/ \E kind \in ReentrantKinds : AddReentrantListener(kind)
    \/ \E a \in ReentrantPutArgs : RPutAcquire(Caller, a.key, a.value, a.ttl, a.priority)
    \/ \E key \in Keys : RGetAcquire(Caller, key)
    \/ RStep(Caller)
    \/ SweepAcquire
    \/ SweepBody

\* SmartCache(max_size, default_ttl) with both arguments positive
InitReentrant == Init /\ max_size >= 1 /\ default_ttl >= 1

\* a thread that is inside a call keeps running: nothing but the lock makes
\* a call wait
SpecReentrant ==
    InitReentrant /\ [][NextReentrant]_vars /\ WF_vars(RStep(Caller))

(***************************************************************************)
(* Properties.  A property of a call is stated over every reachable state  *)
(* and every argument: the call's body, which the action commits, is       *)
(* applied to the tables and counters of the state.                        *)
(***************************************************************************)
AfterPut(a) ==
    PutBody(Tables, a.key, a.value, a.ttl, a.priority, now, max_size, default_ttl)
AfterGet(key) == GetBody(Tables, key, now)
AfterDelete(key) == DeleteBody(Tables, key)

\* the entries filed under a key
Entries(d, k) == {i \in DOMAIN d : d[i].key = k}
\* the keys a call removed
Removed(S) == KeysOf(cache) \ KeysOf(S.cache)
\* a put of a key that is not stored, into a non-empty cache at or above capacity
AtCapacity(key) == ~HasKey(cache, key) /\ Len(cache) > 0 /\ Len(cache) >= max_size

\* the entry the eviction policy is to choose: lowest priority, and among
\* those the one nearest the least-recently-used end of the recency order
LowestPriority(m) ==
    CHOOSE p \in {m[i].priority : i \in DOMAIN m} : \A i \in DOMAIN m : p <= m[i].priority
PolicyVictim(c, m) ==
    LET lowest == {m[i].key : i \in {j \in DOMAIN m : m[j].priority = LowestPriority(m)}}
    IN  CHOOSE k \in lowest : \A j \in lowest : IndexOf(c, k) <= IndexOf(c, j)

\* C1: in every reachable state (after every completed put, get, delete,
\* clear or sweep) the metadata table and the ordering index hold the same
\* set of keys.
C1_KeySetsEqual == KeysOf(metadata) = KeysOf(cache)

\* a sweep has removed an expired key and left a live one
C1_Witness ==
    /\ last.op = "cleanup"
    /\ Len(cache) >= 1
    /\ stats.insertions = 2

\* C2: for a cache constructed with max_size >= 1, after any sequence of
\* completed put/get/delete/clear/sweep calls the number of stored keys is
\* at most max_size.
C2_SizeWithinCapacity == max_size >= 1 => Len(cache) <= max_size

\* C3: a put of a new key into a cache at capacity removes the one entry of
\* lowest priority, the least recently used among those of that priority,
\* whatever the order of the metadata table.
C3_EvictsPolicyVictim ==
    \A a \in PutArgs :
        AtCapacity(a.key) => Removed(AfterPut(a)) = {PolicyVictim(cache, metadata)}

\* C4: a put of a key that is not stored, into a non-empty cache of size >=
\* max_size, removes exactly one entry and adds exactly 1 to evictions,
\* whatever the new key's priority; a put of a stored key, or a put while
\* size < max_size, removes nothing and leaves evictions unchanged.
C4_EvictsExactlyOne ==
    \A a \in PutArgs :
        LET S == AfterPut(a) IN
        /\ AtCapacity(a.key) =>
              /\ Cardinality(Removed(S)) = 1
              /\ S.stats.evictions = stats.evictions + 1
        /\ (HasKey(cache, a.key) \/ Len(cache) < max_size) =>
              /\ Removed(S) = {}
              /\ S.stats.evictions = stats.evictions

\* C5: a get of a key returns the value of the most recent put of that key,
\* provided the key has since not expired, been evicted, been deleted or
\* been cleared.
C5_GetReturnsLastPut ==
    \A k \in Keys :
        (lastPut[k] # None /\ HasKey(metadata, k) /\ now <= Lookup(metadata, k).ttl)
            => GetReturn(Tables, k, now) = lastPut[k]

\* "a" was put twice, "v2" last, and a get of it returns "v2"
C5_Witness ==
    /\ last = Call("put", "hit")
    /\ stats.insertions = 2
    /\ lastPut["a"] = "v2"
    /\ GetReturn(Tables, "a", now) = "v2"

\* C6: a put of a stored key leaves exactly one entry for the key, holding
\* the new value and the clamped new priority; size and evictions are
\* unchanged, also at capacity, and a get that follows returns the new value.
C6_Overwrite ==
    \A a \in PutArgs :
        HasKey(cache, a.key) =>
            LET S == AfterPut(a) IN
            /\ Cardinality(Entries(S.cache, a.key)) = 1
            /\ Cardinality(Entries(S.metadata, a.key)) = 1
            /\ Lookup(S.cache, a.key).value = a.value
            /\ Lookup(S.metadata, a.key).value = a.value
            /\ Lookup(S.metadata, a.key).priority =
                  (IF a.priority < 1 THEN 1 ELSE IF a.priority > 10 THEN 10 ELSE a.priority)
            /\ Len(S.cache) = Len(cache)
            /\ S.stats.evictions = stats.evictions
            /\ GetReturn(S, a.key, now) = a.value

C6_Witness ==
    /\ last = Call("put", "hit")
    /\ max_size >= 1
    /\ Len(cache) = max_size
    /\ lastPut["a"] = "v2"

\* C7: delete(k) returns true exactly when k is stored, and removes k from
\* the ordering index and the metadata table; right after it get(k) returns
\* absent and a second delete(k) returns false.
C7_Delete ==
    \A k \in Keys :
        LET S == AfterDelete(k) IN
        /\ DeleteReturn(Tables, k) = (IF k \in KeysOf(cache) THEN "True" ELSE "False")
        /\ k \notin KeysOf(S.cache)
        /\ k \notin KeysOf(S.metadata)
        /\ GetReturn(S, k, now) = None
        /\ DeleteReturn(S, k) = "False"

C7_Witness ==
    /\ last = Call("delete", "hit")
    /\ Len(cache) >= 1

\* C8: a get of a stored key whose expiry time has passed (now > expires_at),
\* swept or not, returns absent, removes the key, adds exactly 1 to misses
\* and leaves hits and evictions unchanged.
C8_LazyExpiry ==
    \A k \in Keys :
        (HasKey(cache, k) /\ HasKey(metadata, k) /\ now > Lookup(metadata, k).ttl) =>
            LET S == AfterGet(k) IN
            /\ GetReturn(Tables, k, now) = None
            /\ k \notin KeysOf(S.cache)
            /\ k \notin KeysOf(S.metadata)
            /\ S.stats.misses = stats.misses + 1
            /\ S.stats.hits = stats.hits
            /\ S.stats.evictions = stats.evictions

C8_Witness ==
    /\ last = Call("get", "expired")
    /\ stats.misses = 1
    /\ stats.evictions = 0

\* C9: put stores max(1, min(10, priority)) for every priority it is given,
\* below 1 and above 10 included, so every stored key has a priority in 1..10.
C9_PriorityClamped ==
    /\ \A i \in DOMAIN metadata : metadata[i].priority \in 1..10
    /\ \A a \in PutArgs :
          Lookup(AfterPut(a).metadata, a.key).priority =
              (IF a.priority < 1 THEN 1 ELSE IF a.priority > 10 THEN 10 ELSE a.priority)

C9_Witness ==
    /\ last.op = "put"
    /\ \E i, j \in DOMAIN metadata :
          metadata[i].priority = MinPriority /\ metadata[j].priority = MaxPriority

\* every call that was started has returned
AllCompleted == \A t \in Threads : pc[t] = "idle"

\* C10: no lost updates under concurrency: in every interleaving of threads
\* running put and get with the cleanup thread, once all calls have completed
\* insertions equals the number of put calls made, the number of stored keys
\* is at most max_size, and metadata and the ordering index hold the same keys
\* (stated for the caches of C2, those constructed with max_size >= 1)
C10_NoLostUpdates ==
    (AllCompleted /\ max_size >= 1) =>
        /\ stats.insertions = made.put
        /\ Len(cache) <= max_size
        /\ KeysOf(metadata) = KeysOf(cache)

\* an entry without its access count
Untouched(e) == [key |-> e.key, value |-> e.value, ttl |-> e.ttl, priority |-> e.priority]

\* C12: a get of a stored key that has not expired returns the stored value,
\* adds exactly 1 to hits and to the entry's access_count, makes the key the
\* most recently used, and changes nothing else: the stored keys, every
\* entry's value, priority and expiry time, the other entries' access counts,
\* the order of the other keys, and misses, evictions and insertions.
C12_GetHit ==
    \A k \in Keys :
        (HasKey(cache, k) /\ HasKey(metadata, k) /\ now <= Lookup(metadata, k).ttl) =>
            LET S == AfterGet(k) IN
            /\ GetReturn(Tables, k, now) = Lookup(cache, k).value
            /\ S.stats.hits = stats.hits + 1
            /\ Lookup(S.metadata, k).access_count = Lookup(metadata, k).access_count + 1
            /\ S.cache[Len(S.cache)].key = k
            /\ SelectSeq(S.cache, LAMBDA e : e.key # k) = SelectSeq(cache, LAMBDA e : e.key # k)
            /\ Lookup(S.cache, k) = Lookup(cache, k)
            /\ Len(S.metadata) = Len(metadata)
            /\ \A i \in DOMAIN metadata :
                  /\ Untouched(S.metadata[i]) = Untouched(metadata[i])
                  /\ metadata[i].key # k => S.metadata[i] = metadata[i]
            /\ S.stats.misses = stats.misses
            /\ S.stats.evictions = stats.evictions
            /\ S.stats.insertions = stats.insertions

\* a get has hit a key that is now the most recently used, counted once
C12_Witness ==
    /\ last = Call("get", "hit")
    /\ stats.hits = 1
    /\ Len(cache) >= 1
    /\ Lookup(metadata, cache[Len(cache)].key).access_count = 1

\* C13: a cache constructed with max_size = 0 never holds an inserted item:
\* after every completed put its size is 0 and a get of the key just put
\* returns absent.
C13_ZeroCapacityHoldsNothing ==
    (max_size = 0 /\ last.op = "put") =>
        /\ Len(cache) = 0
        /\ \A k \in Keys : lastPut[k] # None => GetReturn(Tables, k, now) = None

\* C14: a sweep removes exactly the stored entries whose expiry time has
\* passed at the time of the sweep and no others, and leaves the four counters
\* and the relative recency order of the surviving keys unchanged.
C14_SweepRemovesExpired ==
    LET S == CleanupExpiredBody(Tables, now)
        live(k) == \E i \in DOMAIN metadata : metadata[i].key = k /\ now <= metadata[i].ttl
    IN  /\ S.cache = SelectSeq(cache, LAMBDA e : live(e.key))
        /\ S.metadata = SelectSeq(metadata, LAMBDA e : now <= e.ttl)
        /\ S.stats = stats

\* a sweep has removed an expired entry and left the live one, counting nothing
C14_Witness ==
    /\ last.op = "cleanup"
    /\ Len(cache) = 1
    /\ now <= metadata[1].ttl
    /\ stats = [ZeroStats EXCEPT !.insertions = 2]

\* the tables and counters with every listener replaced by one that returns
Quiet == [Tables EXCEPT !.listeners = [i \in DOMAIN listeners |-> "returns"]]
SameTables(S, T) == S.cache = T.cache /\ S.metadata = T.metadata /\ S.stats = T.stats
\* the calls made to listeners: who was called, and with what
Calls(S) ==
    [j \in DOMAIN S.notified |->
        [listener |-> S.notified[j].listener, type |-> S.notified[j].type,
         key |-> S.notified[j].key, value |-> S.notified[j].value]]
\* every event has gone to every listener, in the order of registration
ReachedAll(S) ==
    \A j \in DOMAIN S.notified :
        S.notified[j].listener = ((j - 1) % Len(S.listeners)) + 1

\* C16: a listener that fails does not make put or get fail: the failure does
\* not leave the call, every listener registered after it is still called for
\* the same event, the call returns what it returns otherwise, and entries,
\* recency order and counters are what they would be had the listener returned.
C16_ListenerFailureIsolated ==
    /\ \A a \in ListenerPutArgs :
          LET S == AfterPut(a)
              Q == PutBody(Quiet, a.key, a.value, a.ttl, a.priority, now, max_size,
                           default_ttl)
          IN  /\ ~S.raised
              /\ SameTables(S, Q)
              /\ Calls(S) = Calls(Q)
              /\ ReachedAll(S)
              /\ Len(S.notified) >= Len(listeners)
    /\ \A k \in Keys :
          LET S == AfterGet(k)
              Q == GetBody(Quiet, k, now)
          IN  /\ ~S.raised
              /\ SameTables(S, Q)
              /\ Calls(S) = Calls(Q)
              /\ ReachedAll(S)
              /\ Len(S.notified) = Len(listeners)
              /\ GetReturn(Tables, k, now) = GetReturn(Quiet, k, now)

\* a failing listener is registered ahead of another one, a put has been
\* made, and a get calls them both
C16_Witness ==
    /\ listeners = <<"raises", "returns">>
    /\ last.op = "put"
    /\ \E k \in Keys : Len(AfterGet(k).notified) = 2 /\ AfterGet(k).stats.hits = 1

\* a listener is called only after the change that the event reports
Committed(d, before) ==
    CASE d.type = "insert" ->
            /\ HasKey(d.cache, d.key)
            /\ Lookup(d.cache, d.key).value = d.value
            /\ Lookup(d.metadata, d.key).value = d.value
            /\ d.cache[Len(d.cache)].key = d.key
            /\ d.stats.insertions = before.insertions + 1
      [] d.type = "eviction" ->
            /\ ~HasKey(d.cache, d.key)
            /\ ~HasKey(d.metadata, d.key)
            /\ d.stats.evictions = before.evictions + 1
      [] d.type = "hit" -> d.stats.hits = before.hits + 1
      [] d.type = "miss" ->
            /\ d.stats.misses = before.misses + 1
            /\ ~HasKey(d.cache, d.key)
            /\ ~HasKey(d.metadata, d.key)

\* C17: events fire only after the change is made: when a listener is called
\* with "insert" for k, k is stored with the new value, is the most recently
\* used and insertions is counted; with "eviction" for k, k is gone and
\* evictions is counted; with "hit" or "miss" the counter is counted, and on a
\* miss by expiry the expired entry is gone.
C17_EventsAfterCommit ==
    /\ \A a \in ListenerPutArgs :
          LET S == AfterPut(a) IN
          /\ \A j \in DOMAIN S.notified : Committed(S.notified[j], stats)
          /\ \A i \in DOMAIN listeners :
                \E j \in DOMAIN S.notified :
                    /\ S.notified[j].listener = i
                    /\ S.notified[j].type = "insert"
                    /\ S.notified[j].key = a.key
    /\ \A k \in Keys :
          LET S == AfterGet(k) IN
          /\ \A j \in DOMAIN S.notified : Committed(S.notified[j], stats)
          /\ \A i \in DOMAIN listeners :
                \E j \in DOMAIN S.notified :
                    /\ S.notified[j].listener = i
                    /\ S.notified[j].type \in {"hit", "miss"}
                    /\ S.notified[j].key = k

\* a listener is registered, the cache is full, and a put calls it with an
\* "eviction" and then an "insert"
C17_Witness ==
    /\ Len(listeners) >= 1
    /\ last.op = "put"
    /\ Len(cache) >= 1
    /\ \E a \in ListenerPutArgs :
          LET S == AfterPut(a) IN
          \E i, j \in DOMAIN S.notified :
              i < j /\ S.notified[i].type = "eviction" /\ S.notified[j].type = "insert"

\* C18: delete(k), whether k is stored or not, leaves the four counters
\* unchanged, calls no listener, and leaves every other key's entry and the
\* relative recency order of the other keys unchanged.
C18_DeleteFrame ==
    \A k \in Keys :
        LET S == AfterDelete(k) IN
        /\ S.stats = stats
        /\ S.notified = <<>>
        /\ S.cache = SelectSeq(cache, LAMBDA e : e.key # k)
        /\ S.metadata = SelectSeq(metadata, LAMBDA e : e.key # k)

\* with a listener registered, a delete has removed one of two stored keys
C18_Witness ==
    /\ last = Call("delete", "hit")
    /\ Len(listeners) >= 1
    /\ Len(cache) = 1
    /\ stats.insertions = 2

\* C19: clear() leaves no entry in the ordering index or in the metadata
\* table, leaves the four counters unchanged, and does not stop the sweeper:
\* the stop event is as it was, so the sweeps go on after a clear.
C19_Clear ==
    LET S == ClearBody(Tables) IN
    /\ S.cache = <<>>
    /\ S.metadata = <<>>
    /\ S.stats = stats
    /\ S.stop = stop
    /\ ~S.stop

\* a clear has emptied a cache that two puts had filled; the sweeper runs on
C19_Witness ==
    /\ last.op = "clear"
    /\ cache = <<>>
    /\ metadata = <<>>
    /\ stats.insertions = 2
    /\ ~stop
    /\ ENABLED CleanupExpired

\* C15: when the owner drops its last reference to the cache, the sweeper
\* eventually reaches the stopped state, and sweeps no more (the thread's
\* target is a bound method of the cache, and only __del__ sets the stop event).
C15_SweeperStops == (~owned) ~> (pc[Sweeper] = "stopped")

\* the threads that are inside `with self._lock:`
InSection == {t \in Threads \cup {Sweeper} : pc[t] \notin {"idle", "stopped"}}
MutualExclusion ==
    /\ Cardinality(InSection) <= 1
    /\ \A t \in InSection : lock.owner = t /\ lock.count >= 1
    /\ InSection = {} => lock = Unlocked

\* the tables and counters with the call in its section taken as done: a put
\* that has stored its entry has its insertion counted
Linearized ==
    [Tables EXCEPT !.stats.insertions =
        IF \E t \in Threads : pc[t] = "put:count"
        THEN frame[CHOOSE t \in Threads : pc[t] = "put:count"].loaded + 1
        ELSE @]

\* a step leaves the linearized tables alone, or it is the whole of the call
\* of the one thread that is in its section, applied to them
LinearStep ==
    \/ SameTables(Linearized', Linearized)
    \/ \E t \in Threads :
          LET f == frame[t] IN
          \/ /\ pc[t] = "put:tables"
             /\ SameTables(Linearized', PutBody(Linearized, f.key, f.value, f.ttl,
                                                f.priority, now, max_size, default_ttl))
          \/ /\ pc[t] = "get:body"
             /\ SameTables(Linearized', GetBody(Linearized, f.key, now))
          \/ /\ pc[t] = "delete:body"
             /\ SameTables(Linearized', DeleteBody(Linearized, f.key))
          \/ /\ pc[t] = "clear:body"
             /\ SameTables(Linearized', ClearBody(Linearized))
    \/ /\ pc[Sweeper] = "cleanup:body"
       /\ SameTables(Linearized', CleanupExpiredBody(Linearized, now))

\* what a reader in its section sees is the outcome of whole calls only: the
\* two tables hold the same keys, every put and get made so far is counted
\* once, and the items of get_cache_info agree with the get_stats they come with
ReadsWholeCalls ==
    \A t \in Threads :
        /\ pc[t] \in {"get_stats:body", "get_cache_info:items", "get_cache_info:stats"} =>
              /\ KeysOf(metadata) = KeysOf(cache)
              /\ stats.insertions = made.put
              /\ stats.hits + stats.misses = made.get
        /\ pc[t] = "get_cache_info:stats" =>
              LET info == GetCacheInfoReturn(Tables, frame[t].items, max_size) IN
              /\ {info.items[i].key : i \in DOMAIN info.items} = KeysOf(cache)
              /\ Len(info.items) = info.stats.size

\* C11: the calls are linearizable: in every interleaving of put, get, delete,
\* clear, get_stats, get_cache_info and the sweeps at most one of them is in
\* its critical section, states and return values are those of the calls run
\* one after another in the order in which they complete, and get_stats and
\* get_cache_info never see a call half done.
C11_Linearizable == [](MutualExclusion /\ ReadsWholeCalls) /\ [][LinearStep]_vars

\* get_cache_info, holding the lock twice over, reports on a cache that a put
\* has filled
C11_Witness ==
    \E t \in Threads :
        /\ pc[t] = "get_cache_info:stats"
        /\ lock = [owner |-> t, count |-> 2]
        /\ Len(frame[t].items) >= 1
        /\ stats.insertions = MaxCalls

\* C20: hits, misses, evictions and insertions are never negative and never
\* decrease in any step of put, get, delete, clear, a sweep, get_stats or
\* get_cache_info.
C20_CountersMonotonic ==
    /\ [](\A c \in DOMAIN stats : stats[c] >= 0)
    /\ [][\A c \in DOMAIN stats : stats'[c] >= stats[c]]_vars

\* the counters have counted two insertions and an eviction, and a clear has
\* since emptied the cache
C20_Witness ==
    /\ last.op = "clear"
    /\ AllCompleted
    /\ stats.insertions = 2
    /\ stats.evictions = 1

\* the counters a cache can show within the bounds, and beyond what the bounded
\* runs reach
CounterValues == [hits : 0..MaxCalls, misses : 0..MaxCalls, evictions : {0}, insertions : {0}]

\* hit_rate is hits/(hits+misses), or 0 when there were no lookups: the
\* fraction num/den has a divisor that is not 0 and lies in 0..1
IsHitRate(r, st) ==
    /\ r.den # 0
    /\ st.hits + st.misses > 0 => r.num * (st.hits + st.misses) = st.hits * r.den
    /\ st.hits + st.misses = 0 => r.num = 0
    /\ 0 <= r.num /\ r.num <= r.den

\* C21: the hit_rate that get_stats reports equals hits/(hits+misses) when
\* hits+misses > 0 and 0 when hits+misses = 0; it lies between 0 and 1 and
\* is computed without a division by zero.
C21_HitRate ==
    /\ IsHitRate(GetStatsReturn(Tables, max_size).hit_rate, stats)
    /\ \A st \in CounterValues : IsHitRate(HitRate(st), st)

\* a cache with a hit and no miss, whose hit_rate is 1
C21_Witness ==
    /\ last = Call("get", "hit")
    /\ stats.hits = 1
    /\ stats.misses = 0
    /\ GetStatsReturn(Tables, max_size).hit_rate = [num |-> 1, den |-> 1]

\* where a thread stands inside get_stats and get_cache_info
ReaderSteps == {"get_stats:body", "get_cache_info:items", "get_cache_info:stats"}

\* C22: get_stats and get_cache_info are pure snapshots: no step of either
\* changes a stored key, value, priority, expiry time or access count, the
\* recency order or a counter (no expired entry is removed, no hit or miss is
\* recorded), and the thread holds the lock at every step of them.
C22_PureSnapshots ==
    /\ [](\A t \in Threads : pc[t] \in ReaderSteps => lock.owner = t /\ lock.count >= 1)
    /\ [][\A t \in Threads :
            (pc[t] \in ReaderSteps /\ pc'[t] # pc[t]) =>
                /\ cache' = cache
                /\ metadata' = metadata
                /\ stats' = stats]_vars

\* get_cache_info is reading a cache that holds an expired entry
C22_Witness ==
    \E t \in Threads :
        /\ pc[t] = "get_cache_info:stats"
        /\ \E i \in DOMAIN metadata : now > metadata[i].ttl
        /\ \E i \in DOMAIN frame[t].items : frame[t].items[i].ttl_remaining = 0

\* C23: every put stores as expiry time the time of the put plus ttl, ttl
\* being the argument when it is given and not zero and the default_ttl of
\* the cache when it is omitted or zero; a put that overwrites a stored key
\* stores the expiry time computed from the overwriting put.
C23_ExpiryTime ==
    \A a \in PutArgs :
        LET S == AfterPut(a) IN
        /\ HasKey(S.metadata, a.key)
        /\ Lookup(S.metadata, a.key).ttl =
              now + (IF a.ttl.given /\ a.ttl.val # 0 THEN a.ttl.val ELSE default_ttl)

\* a key stored at time 0 without a ttl, and expired since, has been
\* overwritten at time 1 by a put with a ttl, and expires at 1 + ttl
C23_Witness ==
    /\ last = Call("put", "expired")
    /\ now = MaxTime
    /\ default_ttl = 0
    /\ Len(metadata) = 1
    /\ metadata[1].ttl = now + 1

\* C24: a call on a key that is not stored is a defined outcome: get(k)
\* returns absent, adds exactly 1 to misses and changes nothing else;
\* delete(k) returns false and changes nothing at all; neither raises.
C24_AbsentKey ==
    \A k \in Keys :
        ~HasKey(cache, k) =>
            LET G == AfterGet(k)
                D == AfterDelete(k)
            IN  /\ GetReturn(Tables, k, now) = None
                /\ G.stats = [stats EXCEPT !.misses = @ + 1]
                /\ G.cache = cache
                /\ G.metadata = metadata
                /\ G.stop = stop
                /\ ~G.raised
                /\ DeleteReturn(Tables, k) = "False"
                /\ SameTables(D, Tables)
                /\ D.stop = stop
                /\ D.notified = <<>>
                /\ ~D.raised

\* with a failing listener registered and a key stored, a get of another key
\* has missed
C24_Witness ==
    /\ last = Call("get", "absent")
    /\ Len(cache) = 1
    /\ stats.misses = 1
    /\ \E i \in DOMAIN listeners : listeners[i] = "raises"

\* every registered listener was called with an event that names key k
Told(S, k) ==
    \A i \in DOMAIN S.listeners :
        \E j \in DOMAIN S.notified : S.notified[j].listener = i /\ S.notified[j].key = k

\* the removals by priority eviction and by lazy expiry are reported
EvictionsAndExpiriesTold ==
    /\ \A a \in ListenerPutArgs : \A k \in Removed(AfterPut(a)) : Told(AfterPut(a), k)
    /\ \A g \in Keys : \A k \in Removed(AfterGet(g)) : Told(AfterGet(g), k)

\* C25: every removal other than by delete fires an event: when an entry is
\* removed by priority eviction, by lazy expiry inside get or by the sweeper,
\* every registered listener is called with an event naming the removed key
\* (stated for the caches of C2, those constructed with max_size >= 1).
C25_RemovalsFireEvents ==
    max_size >= 1 =>
        /\ EvictionsAndExpiriesTold
        /\ \A k \in Removed(CleanupExpiredBody(Tables, now)) :
              Told(CleanupExpiredBody(Tables, now), k)

\* the access count filed under key k
AccessCount(m, k) == Lookup(m, k).access_count

\* C26: access_count counts the get hits of a key and never decreases while
\* the key stays stored: a get hit adds exactly 1 to it, and a put of another
\* key or a put that overwrites the key does not lower it
\* (stated for the caches of C2, those constructed with max_size >= 1).
C26_AccessCountMonotonic ==
    max_size >= 1 =>
        /\ \A k \in Keys :
              GetOutcome(Tables, k, now) = "hit" =>
                  AccessCount(AfterGet(k).metadata, k) = AccessCount(metadata, k) + 1
        /\ \A a \in PutArgs : \A k \in KeysOf(metadata) \cap KeysOf(AfterPut(a).metadata) :
              AccessCount(AfterPut(a).metadata, k) >= AccessCount(metadata, k)

\* the part of C26 that leaves out the put that overwrites the key
AccessCountKeptByOtherCalls ==
    /\ \A k \in Keys :
          GetOutcome(Tables, k, now) = "hit" =>
              AccessCount(AfterGet(k).metadata, k) = AccessCount(metadata, k) + 1
    /\ \A a \in PutArgs :
          \A k \in (KeysOf(metadata) \cap KeysOf(AfterPut(a).metadata)) \ {a.key} :
              AccessCount(AfterPut(a).metadata, k) = AccessCount(metadata, k)

\* C27: re-entrancy does not deadlock: a listener that calls put, get,
\* delete, clear, get_stats or get_cache_info from inside its callback, on
\* the thread that holds the lock, takes the lock again and its call
\* completes; the outer call then completes and releases the lock in full,
\* so that the other threads and the sweeper can take it.
C27_ReentryCompletes ==
    /\ [](pc[Caller] \in NestedPoints => lock = [owner |-> Caller, count |-> 2])
    /\ [](InSection = {} => lock = Unlocked /\ ENABLED SweepAcquire)
    /\ (pc[Caller] \in NotifyPoints) ~> (pc[Caller] = "idle" /\ lock.owner # Caller)

\* a listener that calls put is inside its call, made from the "insert" event
\* of a put, and holds the lock twice over
C27_Witness ==
    /\ pc[Caller] = "put:counted:listener"
    /\ listeners = <<"calls put">>
    /\ lock = [owner |-> Caller, count |-> 2]

\* C29: the size bound survives listener re-entry: when a listener calls put
\* with a further new key from inside its callback, also while it handles the
\* "eviction" event of a put at capacity, then once the outer put has
\* completed the number of stored keys is at most max_size.
C29_SizeBoundSurvivesReentry == AllCompleted => Len(cache) <= max_size

\* a key is stored and its expiry time has not passed
StoredAndLive(k) == HasKey(metadata, k) /\ ~Expired(now, Lookup(metadata, k))

\* C28: `key in cache` returns true exactly when the key is stored and not
\* expired, for every stored value, a stored value of None included
\* (stated for the caches of C2, those constructed with max_size >= 1).
C28_Contains ==
    max_size >= 1 =>
        \A k \in Keys : (ContainsReturn(Tables, k, now) = "True") <=> StoredAndLive(k)

\* the part of C28 about the keys whose stored value is not None
ContainsRightForValues ==
    \A k \in Keys :
        (HasKey(cache, k) => Lookup(cache, k).value # None) =>
            ((ContainsReturn(Tables, k, now) = "True") <=> StoredAndLive(k))

\* the recency order: the keys of the ordering index, least recently used first
KeySeq(c) == [i \in DOMAIN c |-> c[i].key]

\* C30: the recency order equals the order of the stored keys' most recent
\* touches, a touch being a put of the key (new or overwriting) or a get that
\* hits it: it does so in every reachable state, and after every call made
\* from it; a miss, a delete, a sweep, a clear and a snapshot read leave the
\* surviving keys in the order they had.
C30_RecencyOrder ==
    /\ KeySeq(cache) = touches
    /\ \A a \in PutArgs :
          LET S == AfterPut(a)
              stored == KeysOf(S.cache)
          IN  KeySeq(S.cache) =
                  Append(SelectSeq(touches, LAMBDA x : x # a.key /\ x \in stored), a.key)
    /\ \A k \in Keys :
          /\ KeySeq(AfterGet(k).cache) =
                TouchIfHit(touches, AfterGet(k).cache, k, GetOutcome(Tables, k, now))
          /\ KeySeq(AfterDelete(k).cache) = SelectSeq(touches, LAMBDA x : x # k)
    /\ LET S == CleanupExpiredBody(Tables, now) IN KeySeq(S.cache) = Survivors(touches, S.cache)
    /\ KeySeq(GetStatsBody(Tables).cache) = touches
    /\ KeySeq(GetCacheInfoBody(Tables, now).cache) = touches

\* two keys are stored, in the order of their puts, and a get of the one put
\* first or a put that overwrites it would make it the most recently used
C30_Witness ==
    /\ last.op = "put"
    /\ Len(cache) = 2
    /\ touches = <<"a", "b">>
    /\ GetOutcome(Tables, "a", now) = "hit"
    /\ KeySeq(AfterGet("a").cache) = <<"b", "a">>
    /\ \A a \in PutArgs : a.key = "a" => KeySeq(AfterPut(a).cache) = <<"b", "a">>

\* key k is stored and its TTL has elapsed
ExpiredStored(k) == HasKey(metadata, k) /\ ExpiredAtSweep(now, Lookup(metadata, k))

\* C31: proactive expiry is live: while the sweeper has not been stopped and
\* is scheduled fairly, every stored entry whose TTL has elapsed is
\* eventually removed from the cache, or replaced by an overwriting put, also
\* when its key is never accessed again.
C31_ExpiredEventuallyRemoved ==
    \A k \in Keys : (ExpiredStored(k) /\ ~stop) ~> (~ExpiredStored(k) \/ stop)

\* the owner has dropped the cache, and a sweep has since removed the last of
\* the entries, none of which was looked up
C31_Witness ==
    /\ ~owned
    /\ last.op = "cleanup"
    /\ cache = <<>>
    /\ stats.insertions >= 1
    /\ stats.hits + stats.misses = 0
    /\ ~stop

\* the cleanup thread is in _cleanup_expired
Sweeping == pc[Sweeper] \in {"cleanup:enter", "cleanup:body"}

\* C32: once the stop event is set the cleanup thread ends: its wait returns
\* at once, whether or not the interval has passed, the loop is left and no
\* sweep is begun after the wait has seen the event; a sweep under way when
\* the event is set runs to its end, and then the thread ends.
C32_StopEndsSweeper ==
    /\ [](stop /\ Waiting => ENABLED WaitReturns)
    /\ [][stop /\ Waiting => pc'[Sweeper] \in {"idle", "due", "stopped"}]_vars
    /\ [][pc[Sweeper] = "stopped" => pc'[Sweeper] = "stopped"]_vars
    /\ [][stop /\ Sweeping => pc'[Sweeper] \in {"cleanup:enter", "cleanup:body", "idle"}]_vars
    /\ [][stop /\ pc[Sweeper] = "cleanup:body" /\ pc'[Sweeper] # "cleanup:body"
            => /\ pc'[Sweeper] = "idle"
               /\ SameTables([Tables EXCEPT !.cache = cache', !.metadata = metadata',
                                             !.stats = stats'],
                             CleanupExpiredBody(Tables, now))]_vars
    /\ stop ~> (pc[Sweeper] = "stopped")

\* the thread has swept the last entry away, the stop event has been set and
\* the thread has ended
C32_Witness ==
    /\ stop
    /\ pc[Sweeper] = "stopped"
    /\ last.op = "cleanup"
    /\ cache = <<>>
    /\ stats.insertions >= 1

\* C33: get and the sweep agree on when an entry is dead, and both test
\* now > expiry strictly: for every stored key, a sweep at this instant
\* removes it exactly if a get at this instant would find it expired and
\* count a miss; at now = expiry the get is a hit that returns the value and
\* the sweep leaves the entry in place.
C33_ExpiryTestsAgree ==
    \A k \in Keys :
       HasKey(cache, k) =>
          LET entry == Lookup(metadata, k)
              swept == CleanupExpiredBody(Tables, now)
              got == AfterGet(k)
          IN  /\ k \in Removed(swept) <=> GetOutcome(Tables, k, now) = "expired"
              /\ k \in Removed(swept) <=> got.stats.misses = stats.misses + 1
              /\ k \in Removed(swept) <=> now > entry.ttl
              /\ now = entry.ttl =>
                    /\ GetOutcome(Tables, k, now) = "hit"
                    /\ GetReturn(Tables, k, now) = entry.value
                    /\ got.stats.hits = stats.hits + 1
                    /\ HasKey(swept.cache, k) /\ HasKey(swept.metadata, k)

\* a sweep has removed an expired entry and left in place an entry that
\* expires at this very instant
C33_Witness ==
    /\ last.op = "cleanup"
    /\ stats.insertions = 2
    /\ Len(cache) = 1
    /\ metadata[1].ttl = now
    /\ now = MaxTime

\* the stored keys whose TTL has elapsed and which no get or sweep has yet
\* removed
Unswept == {k \in KeysOf(cache) : ExpiredStored(k)}

\* what a put removes does not depend on the instant of the put, and so not
\* on which of the stored entries have expired by then
EvictionIgnoresExpiry ==
    \A a \in TimedPutArgs, t \in 0..MaxTime :
       Removed(AfterPut(a)) =
          Removed(PutBody(Tables, a.key, a.value, a.ttl, a.priority, t, max_size, default_ttl))

\* C34: entries that have expired but are still stored take up capacity, and
\* eviction takes no notice of expiry: a put of a new key at capacity removes
\* the stored entry of lowest priority, least recently used among equals,
\* also when another stored entry has expired, and the size get_stats
\* reports counts the expired entries.
C34_ExpiredOccupyCapacity ==
    /\ GetStatsReturn(Tables, max_size).size = Len(cache)
    /\ Len(cache) = max_size =>
          \A a \in TimedPutArgs :
             AtCapacity(a.key) /\ Unswept \ {PolicyVictim(cache, metadata)} # {} =>
                /\ Removed(AfterPut(a)) = {PolicyVictim(cache, metadata)}
                /\ Unswept \ {PolicyVictim(cache, metadata)} \subseteq KeysOf(AfterPut(a).cache)

\* C35: a put of a key that is stored but has expired, and has been neither
\* swept nor looked up since, is an overwrite and not a put of a new key: it
\* evicts nothing even at capacity, leaves the size as it was, and stores the
\* key anew with a fresh expiry time, access_count 0 and the most recently
\* used place, so that a get that follows is a hit.
C35_ExpiredKeyOverwritten ==
    \A a \in PutArgs :
       GetOutcome(Tables, a.key, now) = "expired" =>
          LET S == AfterPut(a)
              entry == Lookup(S.metadata, a.key)
          IN  /\ Removed(S) = {}
              /\ S.stats.evictions = stats.evictions
              /\ Len(S.cache) = Len(cache) /\ Len(S.metadata) = Len(metadata)
              /\ KeysOf(S.cache) = KeysOf(cache)
              /\ entry.ttl >= now
              /\ entry.ttl = now + (IF a.ttl.given /\ a.ttl.val # 0 THEN a.ttl.val
                                    ELSE default_ttl)
              /\ entry.access_count = 0
              /\ S.cache[Len(S.cache)].key = a.key
              /\ GetOutcome(S, a.key, now) = "hit"
              /\ GetReturn(S, a.key, now) = a.value

\* a cache of capacity 1 was full with an expired entry; a put of the same
\* key has stored it anew and evicted nothing
C35_Witness ==
    /\ last = Call("put", "expired")
    /\ max_size = 1
    /\ Len(cache) = max_size
    /\ stats.insertions = 2
    /\ stats.evictions = 0
    /\ metadata[1].access_count = 0
    /\ metadata[1].ttl >= now

\* C36: in every reachable state, after any sequence of put, get, delete,
\* clear and sweep, size + evictions <= insertions, and so evictions <=
\* insertions: every stored entry and every eviction is owed to a put of
\* its own.
C36_PutsAccountForEntries ==
    /\ Len(cache) + stats.evictions <= stats.insertions
    /\ stats.evictions <= stats.insertions

\* two puts into a cache of capacity 1: one entry stored, one evicted
C36_Witness ==
    /\ last.op = "put"
    /\ max_size = 1
    /\ stats.insertions = 2
    /\ stats.evictions = 1
    /\ Len(cache) = 1
    /\ Len(cache) + stats.evictions = stats.insertions

\* the lookups a counter record has counted
Lookups(st) == st.hits + st.misses

\* the call counted one hit and nothing else, or one miss and nothing else
CountedHit(S) == S.stats = [stats EXCEPT !.hits = @ + 1]
CountedMiss(S) == S.stats = [stats EXCEPT !.misses = @ + 1]

\* C37: every completed get counts exactly one hit or one miss: whenever no
\* call is in progress, in any interleaving of threads, hits + misses is the
\* number of get calls completed; a get that returns a value has counted a
\* hit, a get of an absent or expired key a miss; and a get made through
\* `key in cache` counts the same way.
C37_OneCountPerGet ==
    /\ AllCompleted => Lookups(stats) = made.get
    /\ \A k \in Keys :
          LET S == AfterGet(k)
              outcome == GetOutcome(Tables, k, now)
          IN  /\ Lookups(S.stats) = Lookups(stats) + 1
              /\ CountedHit(S) \/ CountedMiss(S)
              /\ GetReturn(Tables, k, now) # None => CountedHit(S)
              /\ outcome = "hit" <=> CountedHit(S)
              /\ outcome \in {"absent", "expired"} <=> CountedMiss(S)
              /\ ContainsBody(Tables, k, now).stats = S.stats

\* a put and a get have completed, and the get has counted its hit
C37_Witness ==
    /\ AllCompleted
    /\ lock = Unlocked
    /\ made.put = 1
    /\ made.get = 1
    /\ stats.hits = 1
    /\ stats.misses = 0

\* the calls a call made to listener i with events of one type
EventCount(S, i, type) ==
    Cardinality({j \in DOMAIN S.notified :
                    S.notified[j].listener = i /\ S.notified[j].type = type})

\* the call told every listener of each count it added to the counters, and
\* of nothing else
InStep(S) ==
    /\ \A i \in DOMAIN listeners :
          /\ EventCount(S, i, "insert") = S.stats.insertions - stats.insertions
          /\ EventCount(S, i, "hit") = S.stats.hits - stats.hits
          /\ EventCount(S, i, "miss") = S.stats.misses - stats.misses
          /\ EventCount(S, i, "eviction") = S.stats.evictions - stats.evictions
    /\ \A j \in DOMAIN S.notified :
          /\ S.notified[j].listener \in DOMAIN listeners
          /\ S.notified[j].type \in {"insert", "hit", "miss", "eviction"}
          /\ S.notified[j].type = "eviction" =>
                /\ S.notified[j].value = None
                /\ S.notified[j].key \in Removed(S)

\* C38: events and counters stay in step: every call tells each registered
\* listener of exactly as many "insert", "hit", "miss" and "eviction" events
\* as it adds to insertions, hits, misses and evictions, so that a listener
\* registered before the first call has, whenever no call is in progress,
\* been called with as many events of each type as the counter of that type
\* shows; and every "eviction" event carries the evicted key and no value.
C38_EventsMatchCounters ==
    /\ \A a \in ListenerPutArgs : InStep(AfterPut(a))
    /\ \A k \in Keys : InStep(AfterGet(k)) /\ InStep(AfterDelete(k))
    /\ InStep(ClearBody(Tables))
    /\ InStep(CleanupExpiredBody(Tables, now))

\* with a listener registered, a put has evicted an entry; a get now of the
\* key that is left, expired, tells the listener of its miss
C38_Witness ==
    /\ Len(listeners) >= 1
    /\ last.op = "put"
    /\ stats.evictions = 1
    /\ stats.insertions = 2
    /\ \E k \in Keys :
          /\ GetOutcome(Tables, k, now) = "expired"
          /\ EventCount(AfterGet(k), 1, "miss") = 1

\* the same cache with one well-behaved listener registered
Monitored == [Tables EXCEPT !.listeners = <<"returns">>]

\* C39: the membership test `key in cache` does to the cache exactly what
\* get(key) does: it counts a hit or a miss, moves a live key to the most
\* recently used place and adds 1 to its access_count, removes the key if it
\* has expired, and fires the same "hit" or "miss" event.
C39_ContainsActsAsGet ==
    \A k \in Keys :
       LET S == ContainsBody(Tables, k, now)
           outcome == GetOutcome(Tables, k, now)
       IN  /\ SameTables(S, AfterGet(k))
           /\ Calls(ContainsBody(Monitored, k, now)) = Calls(GetBody(Monitored, k, now))
           /\ Len(Calls(ContainsBody(Monitored, k, now))) = 1
           /\ Calls(ContainsBody(Monitored, k, now))[1].type =
                 (IF outcome = "hit" THEN "hit" ELSE "miss")
           /\ CountedHit(S) \/ CountedMiss(S)
           /\ outcome = "hit" =>
                 /\ CountedHit(S)
                 /\ S.cache[Len(S.cache)].key = k
                 /\ AccessCount(S.metadata, k) = AccessCount(metadata, k) + 1
           /\ outcome = "expired" =>
                 /\ CountedMiss(S)
                 /\ ~HasKey(S.cache, k) /\ ~HasKey(S.metadata, k)
           /\ outcome = "absent" => CountedMiss(S) /\ S.cache = cache

\* a membership test has hit a stored key: one hit counted, one access
C39_Witness ==
    /\ last = Call("contains", "hit")
    /\ stats.hits = 1
    /\ Len(cache) >= 1
    /\ AccessCount(metadata, cache[Len(cache)].key) = 1

====
